---- MODULE Spec2Model ----
(***************************************************************************)
(* Protocol engine of geodic/vex-controller: CRC16, frame codec, the       *)
(* framing loops of send_command / run_serial_thread / run_controller_loop *)
(* and the transactional client, as state machines over byte sequences.    *)
(* Bytes are integers 0..255; Rust slices buf[a..b] are 0-based, half-open.*)
(***************************************************************************)
EXTENDS Integers, Sequences, FiniteSets, TLC

VARIABLES
    mode,           \* which framing loop runs: "send_command", "run_serial_thread", "run_controller_loop"
    stream,         \* the bytes the transport will deliver to this loop, in order
    pos,            \* number of bytes of stream already returned by reads
    packet_buffer,  \* the accumulator (protocol.rs:186, serial.rs:53, main.rs:100)
    fpc,            \* position of the loop: "read", "framing", "returned", "panicked"
    emitted,        \* payloads decode_response returned Some for, in order
    states,         \* ControllerStates the streaming loops produced, in order
    iters,          \* framing-loop iterations run in the current feed
    last,           \* the last framing-loop iteration: lengths before/after, what it did
    unit,           \* TRUE while every read so far returned exactly one byte
    scenario,       \* how stream was built (kind, noise, frames, flipped bit)
    tpc,            \* the client: "idle", "clear", "send", "recv", "sleep"
    op,             \* the operation in progress (get_state, get_versions, ...)
    callno,         \* number of send_command calls started so far
    calls,          \* transport calls made by the call in progress, in order
    wrote,          \* frames the call in progress has written to the transport
    rx,             \* bytes buffered by the transport, not yet read
    inflight,       \* device frames on the line, not yet in the transport's buffer
    elapsed,        \* start.elapsed() in polls of the 2 s window
    result,         \* how the last send_command call ended
    opresult,       \* what the calling operation made of it
    glitch,         \* TRUE once the line has produced its noise burst
    channel,        \* ControllerStates queued in the mpsc channel (tx -> rx), oldest first
    rx_dropped,     \* TRUE once the consumer has dropped the receiving end of the channel
    wresult,        \* what run_serial_thread / run_controller_loop returned
    ioerr,          \* the port operation that failed last ("none" when the last one succeeded)
    seq,            \* number the device gives its next state report
    cpc,            \* stage of the codec function under evaluation
    fn,             \* the codec function under evaluation
    arg,            \* its input
    ret,            \* the value computed so far
    peer            \* a streaming loop fed the same reads as send_command's loop

feedvars == <<mode, stream, pos, packet_buffer, fpc, emitted, states, iters, last, unit, scenario>>

txnvars == <<tpc, op, callno, calls, wrote, rx, inflight, elapsed, result, opresult, glitch>>

streamvars == <<channel, rx_dropped, wresult, ioerr, seq>>

codecvars == <<cpc, fn, arg, ret>>

pairvars == <<peer>>

vars == <<feedvars, txnvars, streamvars, codecvars, pairvars>>

-----------------------------------------------------------------------------
(* Rust integer and slice primitives *)

RECURSIVE BitXor(_, _)
BitXor(a, b) ==
    IF a = 0 THEN b
    ELSE IF b = 0 THEN a
    ELSE (((a % 2) + (b % 2)) % 2) + 2 * BitXor(a \div 2, b \div 2)

\* the ^ operator on u8 and u16, by 4-bit digits
Xor4 == [a \in 0..15 |-> [b \in 0..15 |-> BitXor(a, b)]]

Xor8(a, b) == Xor4[a \div 16][b \div 16] * 16 + Xor4[a % 16][b % 16]

Xor16(a, b) == Xor8(a \div 256, b \div 256) * 256 + Xor8(a % 256, b % 256)

\* the & operator, bit by bit
BitAnd(a, b) ==
    LET and[x \in Nat, y \in Nat] ==
            IF x = 0 \/ y = 0 THEN 0
            ELSE ((x % 2) * (y % 2)) + 2 * and[x \div 2, y \div 2]
    IN  and[a, b]

\* the | operator, bit by bit
BitOr(a, b) ==
    LET or[x \in Nat, y \in Nat] ==
            IF x = 0 THEN y
            ELSE IF y = 0 THEN x
            ELSE (IF x % 2 = 1 \/ y % 2 = 1 THEN 1 ELSE 0) + 2 * or[x \div 2, y \div 2]
    IN  or[a, b]

RECURSIVE Pow2(_)
Pow2(n) == IF n = 0 THEN 1 ELSE 2 * Pow2(n - 1)

\* (x >> n) & 1 != 0
Bit(x, n) == (x \div Pow2(n)) % 2 = 1

\* s[a..b], 0-based, half-open; the caller guarantees a <= b <= len
Slice(s, a, b) == SubSeq(s, a + 1, b)

\* s[i], 0-based
At(s, i) == s[i + 1]

\* Vec::drain(0..n)
Drain(s, n) == SubSeq(s, n + 1, Len(s))

\* BigEndian::read_u16
read_u16(s) == At(s, 0) * 256 + At(s, 1)

-----------------------------------------------------------------------------
(* Constants of the wire format *)

HEADERS == <<201, 54, 184, 71>>

HEADERR == <<170, 85>>

-----------------------------------------------------------------------------
(* CRC16 *)

\* one shift of the 16-bit register: CRC-16/XMODEM, poly 0x1021, no reflection
Crc16Shift(r) ==
    IF r >= 32768 THEN Xor16((r * 2) % 65536, 4129) ELSE (r * 2) % 65536

\* eight shifts, one per bit of the byte; a function, so that the register is
\* passed on as a value
Crc16Shifts[r \in Nat, n \in Nat] == IF n = 0 THEN r ELSE Crc16Shifts[Crc16Shift(r), n - 1]

\* CRC_16_XMODEM: the byte enters at the top of the register.  The register
\* after bytes lo..hi of data, from register crc: the bytes in order, the
\* range halved so that the evaluation stays shallow on long data
Crc16Bytes[data \in Seq(Nat), lo \in Nat, hi \in Nat, crc \in Nat] ==
    IF lo > hi THEN crc
    ELSE IF lo = hi THEN Crc16Shifts[Xor16(crc, data[lo] * 256), 8]
    ELSE Crc16Bytes[data, ((lo + hi) \div 2) + 1, hi,
                    Crc16Bytes[data, lo, (lo + hi) \div 2, crc]]

\* init 0, xorout 0
calculate_crc16(data) == Crc16Bytes[data, 1, Len(data), 0]

-----------------------------------------------------------------------------
(* Frame codec (struct Protocol) *)

\* a two-byte length field written without its flag bit
LengthFieldNoFlag(n) ==
    IF n < 128 THEN <<n>> ELSE <<(n \div 256) % 256, n % 256>>

\* the length field encode_command writes for a data length n
LengthField(n) ==
    IF n < 128 THEN <<n>> ELSE <<BitOr((n \div 256) % 256, 128), n % 256>>

encode_command(cmd1, cmd2, data) ==
    LET packet == HEADERS \o <<cmd1, cmd2>> \o LengthField(Len(data)) \o data
        crc == calculate_crc16(packet)
    IN  packet \o <<crc \div 256, crc % 256>>

\* a length parser that knows only the one-byte form
ParseLenOneByte(buffer) == [len |-> At(buffer, 3), header_size |-> 4]

\* (len, header_size) read at index 3; the caller guarantees at least 5 bytes
ParseLen(buffer) ==
    IF BitAnd(At(buffer, 3), 128) # 0
    THEN [len |-> BitAnd(At(buffer, 3), 127) * 256 + At(buffer, 4), header_size |-> 5]
    ELSE [len |-> At(buffer, 3), header_size |-> 4]

NoPayload == [kind |-> "None", payload |-> <<>>]

\* Option<Vec<u8>>, or a panic when the payload slice has start > end
decode_response(buffer) ==
    IF Len(buffer) < 5 THEN NoPayload
    ELSE IF Slice(buffer, 0, 2) # HEADERR THEN NoPayload
    ELSE LET h == ParseLen(buffer)
             packet_len == h.header_size + h.len
         IN  IF Len(buffer) < packet_len THEN NoPayload
             ELSE LET packet == Slice(buffer, 0, packet_len)
                      received_crc == read_u16(Slice(packet, packet_len - 2, packet_len))
                      calculated_crc == calculate_crc16(Slice(packet, 0, packet_len - 2))
                  IN  IF received_crc # calculated_crc THEN NoPayload
                      ELSE IF h.header_size > packet_len - 2
                           THEN [kind |-> "Panic", payload |-> <<>>]
                           ELSE [kind |-> "Some",
                                 payload |-> Slice(packet, h.header_size, packet_len - 2)]

NoState == [some |-> FALSE, state |-> <<>>]

\* a field layout with the two left shoulder buttons exchanged
StateFieldsSwapped(payload) ==
    LET buttons == read_u16(Slice(payload, 8, 10))
        extra_buttons == At(payload, 10)
        status == At(payload, 8)
    IN  [left_x |-> At(payload, 1), left_y |-> At(payload, 2),
         right_x |-> At(payload, 3), right_y |-> At(payload, 4),
         l_up |-> Bit(buttons, 4), l_down |-> Bit(buttons, 5),
         r_up |-> Bit(buttons, 7), r_down |-> Bit(buttons, 6),
         e_up |-> Bit(buttons, 3), e_down |-> Bit(buttons, 1),
         f_up |-> Bit(buttons, 2), f_down |-> Bit(buttons, 0),
         l3 |-> BitAnd(extra_buttons, 1) # 0,
         r3 |-> BitAnd(extra_buttons, 2) # 0,
         battery |-> At(payload, 11),
         cal_active |-> Bit(status, 4),
         cal_left |-> Bit(status, 5),
         cal_right |-> Bit(status, 6)]

\* a field layout that reads the button word little-endian
StateFieldsLittleEndian(payload) ==
    LET buttons == At(payload, 8) + 256 * At(payload, 9)
        extra_buttons == At(payload, 10)
        status == At(payload, 8)
    IN  [left_x |-> At(payload, 1), left_y |-> At(payload, 2),
         right_x |-> At(payload, 3), right_y |-> At(payload, 4),
         l_up |-> Bit(buttons, 5), l_down |-> Bit(buttons, 4),
         r_up |-> Bit(buttons, 7), r_down |-> Bit(buttons, 6),
         e_up |-> Bit(buttons, 3), e_down |-> Bit(buttons, 1),
         f_up |-> Bit(buttons, 2), f_down |-> Bit(buttons, 0),
         l3 |-> BitAnd(extra_buttons, 1) # 0,
         r3 |-> BitAnd(extra_buttons, 2) # 0,
         battery |-> At(payload, 11),
         cal_active |-> Bit(status, 4),
         cal_left |-> Bit(status, 5),
         cal_right |-> Bit(status, 6)]

\* the fields of a ControllerState read from an accepted payload
StateFields(payload) ==
    LET buttons == read_u16(Slice(payload, 8, 10))
        extra_buttons == At(payload, 10)
        status == At(payload, 8)
    IN  [left_x |-> At(payload, 1), left_y |-> At(payload, 2),
         right_x |-> At(payload, 3), right_y |-> At(payload, 4),
         l_up |-> Bit(buttons, 5), l_down |-> Bit(buttons, 4),
         r_up |-> Bit(buttons, 7), r_down |-> Bit(buttons, 6),
         e_up |-> Bit(buttons, 3), e_down |-> Bit(buttons, 1),
         f_up |-> Bit(buttons, 2), f_down |-> Bit(buttons, 0),
         l3 |-> BitAnd(extra_buttons, 1) # 0,
         r3 |-> BitAnd(extra_buttons, 2) # 0,
         battery |-> At(payload, 11),
         cal_active |-> Bit(status, 4),
         cal_left |-> Bit(status, 5),
         cal_right |-> Bit(status, 6)]

\* a decoder whose length test is one too small
parse_controller_state_13(payload) ==
    IF Len(payload) < 13 \/ At(payload, 0) # 96 THEN NoState
    ELSE [some |-> TRUE, state |-> StateFields(payload)]

parse_controller_state(payload) ==
    IF Len(payload) < 14 \/ At(payload, 0) # 96 THEN NoState
    ELSE [some |-> TRUE, state |-> StateFields(payload)]

-----------------------------------------------------------------------------
(* The framing loops: one iteration each, on an accumulator that passed the *)
(* loop's while condition.  Result: the accumulator afterwards, how the     *)
(* iteration left (continue / break / return / panic) and what it decoded.  *)

\* packet_buffer.windows(2).position(|w| w == HEADERR): 0-based index, or -1
MarkerPosition(buf) ==
    LET hits == {i \in 0..(Len(buf) - 2) : Slice(buf, i, i + 2) = HEADERR}
    IN  IF hits = {} THEN -1 ELSE CHOOSE i \in hits : \A j \in hits : i <= j

IterResult(buf, ctl, out) == [buf |-> buf, ctl |-> ctl, out |-> out]

\* a rejection that drops the whole candidate frame
RejectWholeFrame(b) == Drain(b, ParseLen(b).header_size + ParseLen(b).len)

\* a rejection that drops only the first marker byte
RejectOneByte(b) == Drain(b, 1)

\* CRC failed or invalid: packet_buffer.drain(0..2)
RejectFrame(b) == Drain(b, 2)

\* while packet_buffer.len() >= 2 { ... } of send_command
SendCommandGuard(buf) == Len(buf) >= 2

\* a loop that keeps an accumulator in which it finds no marker
SendCommandIterKeepsNoise(buf) ==
    LET start_idx == MarkerPosition(buf)
    IN  IF start_idx < 0 THEN IterResult(buf, "break", <<>>)
        ELSE LET b == IF start_idx > 0 THEN Drain(buf, start_idx) ELSE buf
             IN  IF Len(b) < 5 THEN IterResult(b, "break", <<>>)
                 ELSE LET h == ParseLen(b)
                          packet_len == h.header_size + h.len
                      IN  IF Len(b) >= packet_len
                          THEN LET r == decode_response(Slice(b, 0, packet_len))
                               IN  IF r.kind = "Some"
                                   THEN IterResult(b, "return", <<r.payload>>)
                                   ELSE IF r.kind = "Panic"
                                   THEN IterResult(b, "panic", <<>>)
                                   ELSE IterResult(RejectFrame(b), "continue", <<>>)
                          ELSE IterResult(b, "break", <<>>)

SendCommandIter(buf) ==
    LET start_idx == MarkerPosition(buf)
    IN  IF start_idx < 0 THEN IterResult(<<>>, "break", <<>>)
        ELSE LET b == IF start_idx > 0 THEN Drain(buf, start_idx) ELSE buf
             IN  IF Len(b) < 5 THEN IterResult(b, "break", <<>>)
                 ELSE LET h == ParseLen(b)
                          packet_len == h.header_size + h.len
                      IN  IF Len(b) >= packet_len
                          THEN LET r == decode_response(Slice(b, 0, packet_len))
                               IN  IF r.kind = "Some"
                                   THEN IterResult(b, "return", <<r.payload>>)
                                   ELSE IF r.kind = "Panic"
                                   THEN IterResult(b, "panic", <<>>)
                                   ELSE IterResult(RejectFrame(b), "continue", <<>>)
                          ELSE IterResult(b, "break", <<>>)

\* while packet_buffer.len() >= 6 { ... } of run_serial_thread
SerialGuard(buf) == Len(buf) >= 6

\* a streaming loop that drops only the marker of a frame it has decoded
SerialIterSkipsMarker(buf) ==
    LET start == MarkerPosition(buf)
    IN  IF start < 0 THEN IterResult(<<>>, "break", <<>>)
        ELSE LET b == IF start > 0 THEN Drain(buf, start) ELSE buf
             IN  IF Len(b) < 5 THEN IterResult(b, "break", <<>>)
                 ELSE LET h == ParseLen(b)
                          packet_len == h.header_size + h.len
                      IN  IF Len(b) >= packet_len
                          THEN LET r == decode_response(Slice(b, 0, packet_len))
                               IN  IF r.kind = "Some"
                                   THEN IterResult(Drain(b, 2), "continue", <<r.payload>>)
                                   ELSE IF r.kind = "Panic"
                                   THEN IterResult(b, "panic", <<>>)
                                   ELSE IterResult(RejectFrame(b), "continue", <<>>)
                          ELSE IterResult(b, "break", <<>>)

SerialIter(buf) ==
    LET start == MarkerPosition(buf)
    IN  IF start < 0 THEN IterResult(<<>>, "break", <<>>)
        ELSE LET b == IF start > 0 THEN Drain(buf, start) ELSE buf
             IN  IF Len(b) < 5 THEN IterResult(b, "break", <<>>)
                 ELSE LET h == ParseLen(b)
                          packet_len == h.header_size + h.len
                      IN  IF Len(b) >= packet_len
                          THEN LET r == decode_response(Slice(b, 0, packet_len))
                               IN  IF r.kind = "Some"
                                   THEN IterResult(Drain(b, packet_len), "continue", <<r.payload>>)
                                   ELSE IF r.kind = "Panic"
                                   THEN IterResult(b, "panic", <<>>)
                                   ELSE IterResult(RejectFrame(b), "continue", <<>>)
                          ELSE IterResult(b, "break", <<>>)

\* while packet_buffer.len() >= 6 { ... } of run_controller_loop
ControllerLoopGuard(buf) == Len(buf) >= 6

ControllerLoopIter(buf) ==
    LET start == MarkerPosition(buf)
    IN  IF start < 0 THEN IterResult(<<>>, "break", <<>>)
        ELSE LET b == IF start > 0 THEN Drain(buf, start) ELSE buf
             IN  IF Len(b) < 5 THEN IterResult(b, "break", <<>>)
                 ELSE LET h == ParseLen(b)
                          packet_len == h.header_size + h.len
                      IN  IF Len(b) >= packet_len
                          THEN LET r == decode_response(Slice(b, 0, packet_len))
                               IN  IF r.kind = "Some"
                                   THEN IterResult(Drain(b, packet_len), "continue", <<r.payload>>)
                                   ELSE IF r.kind = "Panic"
                                   THEN IterResult(b, "panic", <<>>)
                                   ELSE IterResult(RejectFrame(b), "continue", <<>>)
                          ELSE IterResult(b, "break", <<>>)

RECURSIVE FramingLoop(_, _)
Modes == {"send_command", "run_serial_thread", "run_controller_loop"}

LoopGuard(m, buf) ==
    IF m = "send_command" THEN SendCommandGuard(buf)
    ELSE IF m = "run_serial_thread" THEN SerialGuard(buf)
    ELSE ControllerLoopGuard(buf)

\* a loop that treats a frame it cannot decode yet as an invalid one
LoopIterEager(m, buf) ==
    LET r == IF m = "send_command" THEN SendCommandIter(buf)
             ELSE IF m = "run_serial_thread" THEN SerialIter(buf)
             ELSE ControllerLoopIter(buf)
    IN  IF r.ctl = "break" /\ Len(r.buf) >= 2
        THEN IterResult(RejectFrame(r.buf), "continue", <<>>)
        ELSE r

LoopIter(m, buf) ==
    IF m = "send_command" THEN SendCommandIter(buf)
    ELSE IF m = "run_serial_thread" THEN SerialIter(buf)
    ELSE ControllerLoopIter(buf)

\* the whole while loop on one accumulator: what it decoded and how it stopped
FramingLoop(m, buf) ==
    IF ~LoopGuard(m, buf) THEN IterResult(buf, "break", <<>>)
    ELSE LET r == LoopIter(m, buf)
         IN  IF r.ctl # "continue" THEN r
             ELSE LET rest == FramingLoop(m, r.buf)
                  IN  IterResult(rest.buf, rest.ctl, r.out \o rest.out)

-----------------------------------------------------------------------------
(* Inbound traffic: what the device and the line can put on the wire *)

\* a frame decode_response accepts: marker, command byte, length of payload
\* plus checksum (one-byte form, or two-byte form with the flag bit), payload,
\* big-endian CRC16 of everything before it
InboundFrame(f) ==
    LET n == Len(f.payload) + 2
        field == IF f.ext \/ n >= 128 THEN <<128 + (n \div 256), n % 256>> ELSE <<n>>
        body == HEADERR \o <<f.cmd>> \o field \o f.payload
        crc == calculate_crc16(body)
    IN  body \o <<crc \div 256, crc % 256>>

\* length in bytes of the frame InboundFrame builds
FrameLen(f) ==
    3 + (IF f.ext \/ Len(f.payload) + 2 >= 128 THEN 2 ELSE 1) + Len(f.payload) + 2

Reply(payload, ext) == [cmd |-> 88, payload |-> payload, ext |-> ext]

StateReport == Reply(<<96, 127, 127, 127, 127, 0, 0, 0, 0, 33, 1, 87, 0, 0>>, FALSE)

ShortReport == Reply(<<96, 127, 127, 127, 127, 0, 0, 0, 0, 33, 1, 87, 0>>, FALSE)

PairReply == Reply(<<98, 5>>, FALSE)

PairReplyExt == Reply(<<98, 5>>, TRUE)

EmptyReply == Reply(<<>>, FALSE)

\* a version string whose text holds the two marker bytes
VersionReply == Reply(<<103, 170, 85>>, FALSE)

NoReply == Reply(<<>>, TRUE)

FeedFrames == {StateReport, ShortReport, PairReply, PairReplyExt, EmptyReply, VersionReply}

FollowFrames == {StateReport, PairReply}

\* marker, command 0x46, two-byte length field declaring 1, and the byte that
\* makes bytes 4..6 equal the CRC16 of bytes 0..4
DegenerateFrame == <<170, 85, 70, 128, 1, 1>>

\* marker, command 0x58 and a one-byte length field declaring 0: four bytes
\* that are already as long as the total length they declare
RuntHeader == <<170, 85, 88, 0>>

NoiseBytes == {0, 170, 85}

MaxNoise == 1

RECURSIVE SeqsUpTo(_, _)
SeqsUpTo(S, n) ==
    IF n = 0 THEN {<<>>}
    ELSE LET shorter == SeqsUpTo(S, n - 1)
         IN  shorter \cup {Append(q, x) : q \in shorter, x \in S}

NoiseSeqs == SeqsUpTo(NoiseBytes, MaxNoise) \ {<<>>}

\* bit k (0 = least significant) of the big-endian checksum word of frame bytes fr flipped
FlipChecksumBit(fr, k) ==
    LET n == Len(fr)
        w == Xor16(fr[n - 1] * 256 + fr[n], Pow2(k))
    IN  SubSeq(fr, 1, n - 2) \o <<w \div 256, w % 256>>

Scenario(kind, noise, a, b, bit) ==
    [kind |-> kind, noise |-> noise, a |-> a, b |-> b, bit |-> bit]

Scenarios ==
    {Scenario("frame", <<>>, a, NoReply, 0) : a \in FeedFrames}
    \cup {Scenario("noise", g, a, NoReply, 0) : g \in NoiseSeqs, a \in FeedFrames}
    \cup {Scenario("stray", <<g>>, a, NoReply, 0) : g \in NoiseBytes, a \in FeedFrames}
    \cup {Scenario("corrupt", <<>>, a, b, k) : a \in FeedFrames, b \in FollowFrames, k \in 0..15}
    \cup {Scenario("degenerate", g, NoReply, NoReply, 0) : g \in NoiseSeqs \cup {<<>>}}
    \cup {Scenario("runt", <<>>, a, NoReply, 0) : a \in FollowFrames}

StreamOf(sc) ==
    IF sc.kind = "frame" THEN InboundFrame(sc.a)
    ELSE IF sc.kind = "noise" THEN sc.noise \o InboundFrame(sc.a)
    ELSE IF sc.kind = "stray" THEN sc.noise \o HEADERR \o InboundFrame(sc.a)
    ELSE IF sc.kind = "corrupt"
         THEN FlipChecksumBit(InboundFrame(sc.a), sc.bit) \o InboundFrame(sc.b)
    ELSE IF sc.kind = "runt" THEN RuntHeader \o InboundFrame(sc.a)
    ELSE sc.noise \o DegenerateFrame

\* the byte counts one read may return with `remaining` bytes still to come:
\* the two buffered frames of a "corrupt" scenario arrive in a single read
ReadSizes(sc, remaining) ==
    IF sc.kind = "corrupt" THEN {remaining} \ {0} ELSE 1..remaining

-----------------------------------------------------------------------------
(* The reassembler fed by reads: receive/read, extend, framing loop *)

NoResult == [kind |-> "none", value |-> <<>>]

NoIter == [pre |-> 0, post |-> 0, ctl |-> "none", out |-> 0]

\* no streaming loop runs beside the loop under test
NoPeer == [mode |-> "none", packet_buffer |-> <<>>, emitted |-> <<>>, ctl |-> "none"]

FeedInit ==
    /\ mode \in Modes
    /\ scenario \in Scenarios
    /\ stream = StreamOf(scenario)
    /\ pos = 0
    /\ packet_buffer = <<>>
    /\ fpc = "read"
    /\ emitted = <<>>
    /\ states = <<>>
    /\ iters = 0
    /\ last = NoIter
    /\ unit = TRUE
    /\ tpc = "idle"
    /\ op = "get_state"
    /\ callno = 0
    /\ calls = <<>>
    /\ wrote = <<>>
    /\ rx = <<>>
    /\ inflight = <<>>
    /\ elapsed = 0
    /\ result = NoResult
    /\ opresult = NoResult
    /\ glitch = FALSE
    /\ channel = <<>>
    /\ rx_dropped = FALSE
    /\ wresult = NoResult
    /\ ioerr = "none"
    /\ seq = 0
    /\ cpc = "call"
    /\ fn = "none"
    /\ arg = <<>>
    /\ ret = <<>>
    /\ peer = NoPeer

\* where the loop stands once the accumulator is buf and the while condition is tested
AfterTest(m, buf) == IF LoopGuard(m, buf) THEN "framing" ELSE "read"

\* receive_bytes / port.read returned n > 0 bytes: extend_from_slice, enter the loop
Read(n) ==
    /\ fpc = "read"
    /\ n \in ReadSizes(scenario, Len(stream) - pos)
    /\ pos' = pos + n
    /\ packet_buffer' = packet_buffer \o SubSeq(stream, pos + 1, pos + n)
    /\ fpc' = AfterTest(mode, packet_buffer')
    /\ iters' = 0
    /\ last' = NoIter
    /\ unit' = (unit /\ n = 1)
    /\ UNCHANGED <<mode, stream, scenario, emitted, states, txnvars, streamvars, codecvars, pairvars>>

\* the read returned 0 bytes (Ok(0), or a timeout in the streaming loops)
ZeroRead ==
    /\ fpc = "read"
    /\ iters' = 0
    /\ last' = NoIter
    /\ UNCHANGED <<mode, stream, scenario, pos, packet_buffer, fpc, emitted, states, unit, txnvars, streamvars, codecvars, pairvars>>

\* the states produced from a decoded payload: by the streaming loops, and by
\* get_state from the payload send_command returned
Parsed(m, out) ==
    IF out = <<>> THEN <<>>
    ELSE LET p == parse_controller_state(out[1])
         IN  IF p.some THEN <<p.state>> ELSE <<>>

\* one iteration of the framing loop, then the while condition again
FramingIter ==
    /\ fpc = "framing"
    /\ LET r == LoopIter(mode, packet_buffer)
       IN  /\ packet_buffer' = r.buf
           /\ emitted' = emitted \o r.out
           /\ states' = states \o Parsed(mode, r.out)
           /\ last' = [pre |-> Len(packet_buffer), post |-> Len(r.buf),
                       ctl |-> r.ctl, out |-> Len(r.out)]
           /\ fpc' = IF r.ctl = "return" THEN "returned"
                     ELSE IF r.ctl = "panic" THEN "panicked"
                     ELSE IF r.ctl = "break" THEN "read"
                     ELSE AfterTest(mode, r.buf)
    /\ iters' = iters + 1
    /\ UNCHANGED <<mode, stream, scenario, pos, unit, txnvars, streamvars, codecvars, pairvars>>

FeedNext ==
    \/ \E n \in 1..Len(stream) : Read(n)
    \/ ZeroRead
    \/ FramingIter

SpecFeed == FeedInit /\ [][FeedNext]_vars

-----------------------------------------------------------------------------
(* The transactional client: VexController over a Transport and a device *)

Ops == {"get_state", "get_versions", "get_pair_id", "start_calibration", "abort_calibration"}

\* ControllerSubCommand of each operation
SubCommand(o) ==
    IF o = "get_state" THEN 96
    ELSE IF o = "get_versions" THEN 103
    ELSE IF o = "get_pair_id" THEN 98
    ELSE IF o = "start_calibration" THEN 102
    ELSE 101

MaxCalls == 2

DeadlineTicks == 3

\* the device's answer to request number k with sub-command c: the tag, then
\* data that names the request (an axis byte of a state report, a version
\* character, a pair id)
DeviceReply(c, k) ==
    IF c = 96 THEN Reply(<<96, k, 127, 127, 127, 0, 0, 0, 0, 33, 1, 87, 0, 0>>, FALSE)
    ELSE Reply(<<c, k>>, FALSE)

\* String::from_utf8_lossy on bytes: ASCII is kept, a byte that is no ASCII
\* character becomes U+FFFD
Utf8Lossy(bytes) == [i \in 1..Len(bytes) |-> IF bytes[i] < 128 THEN bytes[i] ELSE 65533]

Ok(v) == [kind |-> "Ok", value |-> v]

Err(e) == [kind |-> "Err", value |-> e]

\* what each operation returns for the payload send_command returned
Wrap(o, payload) ==
    IF o = "get_state"
    THEN LET p == parse_controller_state(payload)
         IN  IF p.some THEN Ok(p.state) ELSE Err("Failed to parse state")
    ELSE IF o = "get_versions"
    THEN IF Len(payload) > 1 THEN Ok(Utf8Lossy(Slice(payload, 1, Len(payload))))
         ELSE Err("Invalid version payload")
    ELSE IF o = "get_pair_id"
    THEN IF Len(payload) > 1 THEN Ok(At(payload, 1)) ELSE Err("Invalid pair ID payload")
    ELSE Ok(<<>>)

TxnInit ==
    /\ mode = "send_command"
    /\ scenario = Scenario("frame", <<>>, NoReply, NoReply, 0)
    /\ stream = <<>>
    /\ pos = 0
    /\ packet_buffer = <<>>
    /\ fpc = "read"
    /\ emitted = <<>>
    /\ states = <<>>
    /\ iters = 0
    /\ last = NoIter
    /\ unit = TRUE
    /\ tpc = "idle"
    /\ op = "get_state"
    /\ callno = 0
    /\ calls = <<>>
    /\ wrote = <<>>
    /\ rx = <<>>
    /\ inflight = <<>>
    /\ elapsed = 0
    /\ result = NoResult
    /\ opresult = NoResult
    /\ glitch = FALSE
    /\ channel = <<>>
    /\ rx_dropped = FALSE
    /\ wresult = NoResult
    /\ ioerr = "none"
    /\ seq = 0
    /\ cpc = "call"
    /\ fn = "none"
    /\ arg = <<>>
    /\ ret = <<>>
    /\ peer = NoPeer

\* the call ends with send_command's result r; the operation maps it (the ? operator
\* passes an error through)
Resolve(r) ==
    /\ result' = r
    /\ opresult' = IF r.kind = "Ok" THEN Wrap(op, r.value) ELSE r
    /\ tpc' = IF r.kind = "Panic" THEN "panicked" ELSE "idle"

\* one of the operations is called; &mut self admits one call at a time, and
\* the locals of the call before it (its accumulator, its clock) are gone
Call(o) ==
    /\ tpc = "idle"
    /\ callno < MaxCalls
    /\ op' = o
    /\ callno' = callno + 1
    /\ calls' = <<>>
    /\ result' = NoResult
    /\ opresult' = NoResult
    /\ packet_buffer' = <<>>
    /\ elapsed' = 0
    /\ wrote' = <<>>
    /\ tpc' = "clear"
    /\ UNCHANGED <<mode, stream, pos, fpc, emitted, states, iters, last, unit, scenario, streamvars, codecvars, pairvars,
                   rx, inflight, glitch>>

\* self.transport.clear_buffer()?
ClearBuffer ==
    /\ tpc = "clear"
    /\ calls' = Append(calls, "clear_buffer")
    /\ \/ /\ rx' = <<>>
          /\ tpc' = "send"
          /\ UNCHANGED <<result, opresult>>
       \/ /\ Resolve(Err("transport"))
          /\ UNCHANGED rx
    /\ UNCHANGED <<feedvars, streamvars, codecvars, pairvars, op, callno, wrote, inflight, elapsed, glitch>>

\* a client that writes the frame a second time before it starts to read
SendBytesTwice ==
    /\ tpc = "send"
    /\ calls' = Append(calls, "send_bytes")
    /\ wrote' = Append(wrote, encode_command(88, SubCommand(op), <<>>))
    /\ inflight' = Append(inflight, InboundFrame(DeviceReply(SubCommand(op), callno)))
    /\ packet_buffer' = <<>>
    /\ elapsed' = 0
    /\ tpc' = IF Len(calls) >= 2 THEN "recv" ELSE "send"
    /\ UNCHANGED <<mode, stream, pos, fpc, emitted, states, iters, last, unit, scenario, streamvars, codecvars, pairvars,
                   op, callno, rx, glitch, result, opresult>>

\* self.transport.send_bytes(&command)?; then the buffers and the clock are set up.
\* The device answers the frame it receives; its answer is on the line.
SendBytes ==
    /\ tpc = "send"
    /\ calls' = Append(calls, "send_bytes")
    /\ \/ /\ wrote' = Append(wrote, encode_command(88, SubCommand(op), <<>>))
          /\ inflight' = Append(inflight, InboundFrame(DeviceReply(SubCommand(op), callno)))
          /\ packet_buffer' = <<>>
          /\ elapsed' = 0
          /\ tpc' = "recv"
          /\ UNCHANGED <<result, opresult>>
       \/ /\ Resolve(Err("transport"))
          /\ UNCHANGED <<wrote, inflight, packet_buffer, elapsed>>
    /\ UNCHANGED <<mode, stream, pos, fpc, emitted, states, iters, last, unit, scenario, streamvars, codecvars, pairvars,
                   op, callno, rx, glitch>>

\* let n = self.transport.receive_bytes(&mut buffer)?; the framing loop when n > 0
ReceiveBytes ==
    /\ tpc = "recv"
    /\ calls' = Append(calls, "receive_bytes")
    /\ \/ /\ rx' = <<>>
          /\ IF Len(rx) > 0
             THEN LET r == FramingLoop("send_command", packet_buffer \o rx)
                  IN  /\ packet_buffer' = r.buf
                      /\ IF r.ctl = "return" THEN Resolve(Ok(r.out[1]))
                         ELSE IF r.ctl = "panic" THEN Resolve([kind |-> "Panic", value |-> <<>>])
                         ELSE /\ tpc' = "sleep"
                              /\ UNCHANGED <<result, opresult>>
             ELSE /\ tpc' = "sleep"
                  /\ UNCHANGED <<packet_buffer, result, opresult>>
       \/ /\ Resolve(Err("transport"))
          /\ UNCHANGED <<rx, packet_buffer>>
    /\ UNCHANGED <<mode, stream, pos, fpc, emitted, states, iters, last, unit, scenario, streamvars, codecvars, pairvars,
                   op, callno, wrote, inflight, elapsed, glitch>>

\* std::thread::sleep(10 ms), then while start.elapsed() < 2 s: at least one poll
\* interval has passed, possibly more; past the deadline the call bails out
Sleep ==
    /\ tpc = "sleep"
    /\ \E t \in (elapsed + 1)..DeadlineTicks :
          /\ elapsed' = t
          /\ IF t < DeadlineTicks
             THEN /\ tpc' = "recv"
                  /\ UNCHANGED <<result, opresult>>
             ELSE Resolve(Err("Timeout waiting for response"))
    /\ UNCHANGED <<feedvars, streamvars, codecvars, pairvars, op, callno, calls, wrote, rx, inflight, glitch>>

\* the oldest frame on the line reaches the transport's buffer
Deliver ==
    /\ inflight # <<>>
    /\ rx' = rx \o Head(inflight)
    /\ inflight' = Tail(inflight)
    /\ UNCHANGED <<feedvars, streamvars, codecvars, pairvars, tpc, op, callno, calls, wrote, elapsed, result, opresult, glitch>>

\* line noise puts bytes into the transport's buffer
LineNoise ==
    /\ ~glitch
    /\ glitch' = TRUE
    /\ rx' = rx \o DegenerateFrame
    /\ UNCHANGED <<feedvars, streamvars, codecvars, pairvars, tpc, op, callno, calls, wrote, inflight, elapsed, result, opresult>>

TxnNext ==
    \/ \E o \in Ops : Call(o)
    \/ ClearBuffer
    \/ SendBytes
    \/ ReceiveBytes
    \/ Sleep
    \/ Deliver
    \/ LineNoise

SpecTxn == TxnInit /\ [][TxnNext]_vars

-----------------------------------------------------------------------------
(* The streaming workers: run_serial_thread hands its states to the consumer *)
(* through an mpsc channel, run_controller_loop hands them to the gamepad    *)
(* handler; both poll the device over a serial port                          *)

StreamModes == {"run_serial_thread", "run_controller_loop"}

\* mpsc::channel(32)
ChannelCapacity == 32

\* the device's answers still on the line or in the port's buffer: at most this many
MaxBurst == 2

\* the device numbers its state reports 0 .. SeqMod - 1, round and round
SeqMod == 2

\* the variables no step of the streaming workers, the device or the consumer changes
streamidle == <<pos, unit, tpc, op, callno, calls, rx, elapsed, result, opresult, glitch, codecvars, pairvars>>

\* the frames a read took from the port, and the bytes they are on the wire
PortRead(frames) == [kind |-> "port", frames |-> frames]

RECURSIVE WireBytes(_)
WireBytes(frames) ==
    IF frames = <<>> THEN <<>> ELSE InboundFrame(Head(frames)) \o WireBytes(Tail(frames))

StreamInit ==
    /\ mode \in StreamModes
    /\ scenario = PortRead(<<>>)
    /\ stream = <<>>
    /\ pos = 0
    /\ packet_buffer = <<>>
    /\ fpc = "write"
    /\ emitted = <<>>
    /\ states = <<>>
    /\ iters = 0
    /\ last = NoIter
    /\ unit = TRUE
    /\ tpc = "idle"
    /\ op = "get_state"
    /\ callno = 0
    /\ calls = <<>>
    /\ wrote = <<>>
    /\ rx = <<>>
    /\ inflight = <<>>
    /\ elapsed = 0
    /\ result = NoResult
    /\ opresult = NoResult
    /\ glitch = FALSE
    /\ channel = <<>>
    /\ rx_dropped = FALSE
    /\ wresult = NoResult
    /\ ioerr = "none"
    /\ seq = 0
    /\ cpc = "call"
    /\ fn = "none"
    /\ arg = <<>>
    /\ ret = <<>>
    /\ peer = NoPeer

\* protocol.encode_command(0x58, 0x60, &[])
GetStateCommand == encode_command(88, 96, <<>>)

\* where the worker stands once the accumulator is buf and the while condition is tested
StreamAfterTest(m, buf) == IF LoopGuard(m, buf) THEN "framing" ELSE "sleep"

\* port.write_all(&command) of the CNTR_GET_STATE frame.  When it succeeds the
\* device answers with its next state report, with a frame of another tag, or
\* not at all.  When it fails run_serial_thread warns and sleeps 1 s, and
\* run_controller_loop returns the error.
StreamWrite ==
    /\ fpc = "write"
    /\ \/ /\ ioerr' = "none"
          /\ wrote' = <<GetStateCommand>>
          /\ fpc' = "read"
          /\ \/ /\ Len(inflight) < MaxBurst
                /\ inflight' = Append(inflight, DeviceReply(96, seq))
                /\ seq' = (seq + 1) % SeqMod
             \/ /\ Len(inflight) < MaxBurst
                /\ inflight' = Append(inflight, PairReply)
                /\ UNCHANGED seq
             \/ UNCHANGED <<inflight, seq>>
          /\ UNCHANGED wresult
       \/ /\ ioerr' = "write"
          /\ IF mode = "run_serial_thread"
             THEN fpc' = "backoff" /\ UNCHANGED wresult
             ELSE fpc' = "returned" /\ wresult' = Err("transport")
          /\ UNCHANGED <<wrote, inflight, seq>>
    /\ UNCHANGED <<mode, stream, packet_buffer, emitted, states, iters, last, scenario,
                   channel, rx_dropped, streamidle>>

\* std::thread::sleep(Duration::from_secs(1)); continue
Backoff ==
    /\ fpc = "backoff"
    /\ fpc' = "write"
    /\ UNCHANGED <<mode, stream, packet_buffer, emitted, states, iters, last, scenario,
                   wrote, inflight, streamvars, streamidle>>

\* port.read(&mut buffer): Ok(n) with the k frames that have arrived,
\* extend_from_slice, then the while condition
StreamRead(k) ==
    /\ fpc = "read"
    /\ k \in 1..Len(inflight)
    /\ ioerr' = "none"
    /\ LET frames == SubSeq(inflight, 1, k)
           extended == packet_buffer \o WireBytes(frames)
       IN  /\ scenario' = PortRead(frames)
           /\ packet_buffer' = extended
           /\ stream' = extended
           /\ fpc' = StreamAfterTest(mode, extended)
    /\ inflight' = SubSeq(inflight, k + 1, Len(inflight))
    /\ emitted' = <<>>
    /\ states' = <<>>
    /\ iters' = 0
    /\ last' = NoIter
    /\ UNCHANGED <<mode, wrote, channel, rx_dropped, wresult, seq, streamidle>>

\* port.read: Ok(0) or Err(TimedOut), nothing to do; any other Err is returned
StreamReadNothing ==
    /\ fpc = "read"
    /\ \/ /\ ioerr' = "none"
          /\ fpc' = "sleep"
          /\ UNCHANGED wresult
       \/ /\ ioerr' = "read"
          /\ fpc' = "returned"
          /\ wresult' = Err("transport")
    /\ UNCHANGED <<mode, stream, packet_buffer, emitted, states, iters, last, scenario,
                   wrote, inflight, channel, rx_dropped, seq, streamidle>>

\* the accumulator once the bytes before its first marker are drained
Aligned(buf) == IF MarkerPosition(buf) > 0 THEN Drain(buf, MarkerPosition(buf)) ELSE buf

\* packet_len of the frame at the front of a marker-aligned accumulator
TotalLen(b) == ParseLen(b).header_size + ParseLen(b).len

\* one iteration of the while loop.  On a decoded state report run_serial_thread
\* calls tx.blocking_send(state) before packet_buffer.drain(0..packet_len);
\* run_controller_loop prints the state and updates the gamepad handler.
StreamIter ==
    /\ fpc = "framing"
    /\ \E r \in {LoopIter(mode, packet_buffer)} :
       LET p == IF r.out = <<>> THEN NoState ELSE parse_controller_state(r.out[1])
           sends == p.some /\ mode = "run_serial_thread"
           kept == IF sends THEN Aligned(packet_buffer) ELSE r.buf
       IN  /\ packet_buffer' = kept
           /\ emitted' = emitted \o r.out
           /\ states' = IF p.some /\ ~sends THEN Append(states, p.state) ELSE states
           /\ last' = [pre |-> Len(packet_buffer), post |-> Len(kept),
                       ctl |-> r.ctl, out |-> Len(r.out)]
           /\ fpc' = IF sends THEN "blocking_send"
                     ELSE IF r.ctl = "panic" THEN "panicked"
                     ELSE IF r.ctl = "break" THEN "sleep"
                     ELSE StreamAfterTest(mode, r.buf)
    /\ iters' = iters + 1
    /\ UNCHANGED <<mode, stream, scenario, wrote, inflight, streamvars, streamidle>>

\* tx.blocking_send(state): Err once the receiver is dropped (the worker returns
\* Ok(())), otherwise the state is queued as soon as the channel has room; then
\* packet_buffer.drain(0..packet_len) and the while condition
BlockingSend ==
    /\ fpc = "blocking_send"
    /\ IF rx_dropped
       THEN /\ fpc' = "returned"
            /\ wresult' = Ok(<<>>)
            /\ UNCHANGED <<packet_buffer, channel, states, last>>
       ELSE /\ Len(channel) < ChannelCapacity
            /\ \E payload \in {decode_response(packet_buffer).payload} :
               LET state == parse_controller_state(payload).state
                   rest == Drain(packet_buffer, TotalLen(packet_buffer))
               IN  /\ channel' = Append(channel, state)
                   /\ states' = Append(states, state)
                   /\ packet_buffer' = rest
                   /\ last' = [last EXCEPT !.post = Len(rest)]
                   /\ fpc' = StreamAfterTest(mode, rest)
            /\ UNCHANGED wresult
    /\ UNCHANGED <<mode, stream, emitted, iters, scenario, wrote, inflight,
                   rx_dropped, ioerr, seq, streamidle>>

\* std::thread::sleep(Duration::from_millis(20)), then the next cycle of the loop;
\* the record of the feed that has ended (what was read, decoded, handed over) is dropped
StreamSleep ==
    /\ fpc = "sleep"
    /\ fpc' = "write"
    /\ scenario' = PortRead(<<>>)
    /\ stream' = <<>>
    /\ emitted' = <<>>
    /\ states' = <<>>
    /\ iters' = 0
    /\ last' = NoIter
    /\ UNCHANGED <<mode, packet_buffer, wrote, inflight, streamvars, streamidle>>

\* the consumer polls the ReceiverStream and takes the oldest queued state
Pull ==
    /\ mode = "run_serial_thread"
    /\ ~rx_dropped
    /\ channel # <<>>
    /\ channel' = Tail(channel)
    /\ UNCHANGED <<feedvars, wrote, inflight, rx_dropped, wresult, ioerr, seq, streamidle>>

\* the consumer drops the stream: the receiver closes and what is queued is gone
DropReceiver ==
    /\ mode = "run_serial_thread"
    /\ ~rx_dropped
    /\ rx_dropped' = TRUE
    /\ channel' = <<>>
    /\ UNCHANGED <<feedvars, wrote, inflight, wresult, ioerr, seq, streamidle>>

\* the steps of the worker thread
WorkerNext ==
    \/ StreamWrite
    \/ Backoff
    \/ \E k \in 1..MaxBurst : StreamRead(k)
    \/ StreamReadNothing
    \/ StreamIter
    \/ BlockingSend
    \/ StreamSleep

StreamNext ==
    \/ WorkerNext
    \/ Pull
    \/ DropReceiver

SpecStream == StreamInit /\ [][StreamNext]_vars

\* the worker runs on its own blocking thread: it takes its next step whenever it has one
SpecStreamFair == StreamInit /\ [][StreamNext]_vars /\ WF_vars(WorkerNext)

-----------------------------------------------------------------------------
(* The table-driven checksum engine (struct Crc16) *)

\* Crc16::new: table[i] is (i as u16) << 8 after eight shifts of the register
Crc16_new == [i \in 0..255 |-> Crc16Shifts[(i * 256) % 65536, 8]]

\* a compute that indexes the table with the low byte of the register
Crc16_compute_low(table, data, initial) ==
    LET fold[i \in Nat, crc \in Nat] ==
            IF i > Len(data) THEN crc
            ELSE fold[i + 1, Xor16((crc * 256) % 65536,
                                   table[Xor8(crc % 256, data[i])])]
    IN  fold[1, initial]

\* Crc16::compute: index = ((crc >> 8) ^ byte) as u8; crc = (crc << 8) ^ table[index]
Crc16_compute(table, data, initial) ==
    LET fold[i \in Nat, crc \in Nat] ==
            IF i > Len(data) THEN crc
            ELSE fold[i + 1, Xor16((crc * 256) % 65536,
                                   table[Xor8(crc \div 256, data[i])])]
    IN  fold[1, initial]

-----------------------------------------------------------------------------
(* The axis mapping of the Windows gamepad handler (gamepad.rs) *)

\* x as i16: the low 16 bits of x read as a two's complement number
as_i16(x) == ((x + 32768) % 65536) - 32768

\* ((val as i32 - 127) * 256) as i16
map_axis(val) == as_i16((val - 127) * 256)

-----------------------------------------------------------------------------
(* The pure functions of the codec, applied to inputs drawn from bounded sets *)

\* a payload of n bytes
Payload(n, fill) == [i \in 1..n |-> (fill + 7 * i) % 256]

\* the ASCII bytes "123456789"
Ascii123456789 == <<49, 50, 51, 52, 53, 54, 55, 56, 57>>

MaxCrcLen == 2

\* a state report whose byte 11 is b
ReportWithBattery(b) == <<96, 127, 127, 127, 127, 0, 0, 0, 0, 33, 1, b, 0, 0>>

\* a buffer one bit away from a frame in its first byte
WrongMarker(fr) == <<171>> \o Tail(fr)

\* the second byte string whose length field declares 1 and whose bytes 4..6
\* equal the CRC16 of bytes 0..4
DegenerateFrame2 == <<170, 85, 169, 128, 1, 141>>

EncodeInputs ==
    {[cmd1 |-> c1, cmd2 |-> c2, data |-> Payload(n, fill)] :
        c1 \in {88, 0}, c2 \in {96, 2, 255}, n \in {0, 1, 127, 128, 200}, fill \in {0, 96}}

LengthInputs ==
    {[n |-> n] : n \in {0, 1, 2, 127, 128, 129, 200, 255, 256, 1000, 32767, 32768, 65535}}

CrcInputs ==
    {[data |-> d] : d \in SeqsUpTo({0, 1, 128, 255}, MaxCrcLen)
                          \cup {Ascii123456789} \cup {InboundFrame(f) : f \in FeedFrames}}

\* the state report with payload[i] set to v
ReportWith(i, v) == [StateReport.payload EXCEPT ![i + 1] = v]

\* byte values with no bit, one bit, and every bit set
ProbeBytes == {0, 1, 2, 4, 8, 16, 32, 64, 128, 255}

ParseInputs ==
    {[payload |-> ReportWithBattery(b)] : b \in {0, 50, 100, 101, 200, 255}}
    \cup {[payload |-> SubSeq(StateReport.payload, 1, n)] : n \in 0..14}
    \cup {[payload |-> f.payload] : f \in FeedFrames}
    \cup {[payload |-> ReportWith(i, v)] : i \in 0..13, v \in ProbeBytes}
    \cup {[payload |-> ReportWith(8, v)] : v \in 0..255}
    \cup {[payload |-> StateReport.payload \o <<v>>] : v \in {0, 255}}

DecodeFrames == FeedFrames \cup {Reply(Payload(130, 1), FALSE)}

DecodeInputs ==
    {[buffer |-> InboundFrame(f)] : f \in DecodeFrames}
    \cup {[buffer |-> InboundFrame(f) \o <<170, 85, 0>>] : f \in DecodeFrames}
    \cup UNION {{[buffer |-> SubSeq(InboundFrame(f), 1, n)] : n \in 0..(FrameLen(f) - 1)} :
                   f \in FeedFrames}
    \cup {[buffer |-> FlipChecksumBit(InboundFrame(f), k)] : f \in DecodeFrames, k \in {0, 7, 8, 15}}
    \cup {[buffer |-> WrongMarker(InboundFrame(f))] : f \in DecodeFrames}
    \cup {[buffer |-> fr \o t] : fr \in {DegenerateFrame, DegenerateFrame2}, t \in {<<>>, <<0>>}}

\* every raw axis value
AxisInputs == {[val |-> v] : v \in 0..255}

Functions ==
    {"encode_command", "length_field", "Crc16_compute", "parse_controller_state",
     "decode_response", "map_axis"}

InputsOf(f) ==
    IF f = "encode_command" THEN EncodeInputs
    ELSE IF f = "length_field" THEN LengthInputs
    ELSE IF f = "Crc16_compute" THEN CrcInputs
    ELSE IF f = "parse_controller_state" THEN ParseInputs
    ELSE IF f = "map_axis" THEN AxisInputs
    ELSE DecodeInputs

CodecInit ==
    /\ fn \in Functions
    /\ arg \in InputsOf(fn)
    /\ cpc = "call"
    /\ ret = <<>>
    /\ peer = NoPeer
    /\ mode = "send_command"
    /\ scenario = Scenario("frame", <<>>, NoReply, NoReply, 0)
    /\ stream = <<>>
    /\ pos = 0
    /\ packet_buffer = <<>>
    /\ fpc = "read"
    /\ emitted = <<>>
    /\ states = <<>>
    /\ iters = 0
    /\ last = NoIter
    /\ unit = TRUE
    /\ tpc = "idle"
    /\ op = "get_state"
    /\ callno = 0
    /\ calls = <<>>
    /\ wrote = <<>>
    /\ rx = <<>>
    /\ inflight = <<>>
    /\ elapsed = 0
    /\ result = NoResult
    /\ opresult = NoResult
    /\ glitch = FALSE
    /\ channel = <<>>
    /\ rx_dropped = FALSE
    /\ wresult = NoResult
    /\ ioerr = "none"
    /\ seq = 0

\* the step computes value v and moves to stage c
Computes(v, c) ==
    /\ ret' = v
    /\ cpc' = c
    /\ UNCHANGED <<feedvars, txnvars, streamvars, pairvars, fn, arg>>

\* Protocol::encode_command(cmd1, cmd2, data)
CallEncodeCommand ==
    /\ fn = "encode_command"
    /\ cpc = "call"
    /\ Computes(encode_command(arg.cmd1, arg.cmd2, arg.data), "encoded")

\* the 4-byte outbound marker of the frame is replaced by the 2-byte inbound one
SubstituteMarker ==
    /\ cpc = "encoded"
    /\ Computes(HEADERR \o Drain(ret, Len(HEADERS)), "substituted")

\* Protocol::decode_response(buffer), on the substituted frame or on an input buffer
CallDecodeResponse ==
    \/ /\ cpc = "substituted"
       /\ Computes(decode_response(ret), "done")
    \/ /\ fn = "decode_response"
       /\ cpc = "call"
       /\ Computes(decode_response(arg.buffer), "done")

\* the length field encode_command writes for a data length n
WriteLengthField ==
    /\ fn = "length_field"
    /\ cpc = "call"
    /\ Computes(LengthField(arg.n), "written")

\* the decoder's length parsing, on the field at offset 3 of an inbound frame
ReadLengthField ==
    /\ cpc = "written"
    /\ Computes(ParseLen(HEADERR \o <<88>> \o ret), "done")

\* Crc16::new().compute(data, 0)
CallCrc16Compute ==
    /\ fn = "Crc16_compute"
    /\ cpc = "call"
    /\ Computes(Crc16_compute(Crc16_new, arg.data, 0), "done")

\* Protocol::parse_controller_state(payload)
CallParseControllerState ==
    /\ fn = "parse_controller_state"
    /\ cpc = "call"
    /\ Computes(parse_controller_state(arg.payload), "done")

\* map_axis(val) of the Windows gamepad handler
CallMapAxis ==
    /\ fn = "map_axis"
    /\ cpc = "call"
    /\ Computes(map_axis(arg.val), "done")

CodecNext ==
    \/ CallEncodeCommand
    \/ SubstituteMarker
    \/ CallDecodeResponse
    \/ WriteLengthField
    \/ ReadLengthField
    \/ CallCrc16Compute
    \/ CallParseControllerState
    \/ CallMapAxis

SpecCodec == CodecInit /\ [][CodecNext]_vars

-----------------------------------------------------------------------------
(* send_command's loop and a streaming loop, each with its own accumulator, *)
(* fed the same reads                                                       *)

PairInit ==
    /\ mode = "send_command"
    /\ scenario \in Scenarios
    /\ stream = StreamOf(scenario)
    /\ pos = 0
    /\ packet_buffer = <<>>
    /\ fpc = "read"
    /\ emitted = <<>>
    /\ states = <<>>
    /\ iters = 0
    /\ last = NoIter
    /\ unit = TRUE
    /\ \E m \in StreamModes : peer = [NoPeer EXCEPT !.mode = m]
    /\ tpc = "idle"
    /\ op = "get_state"
    /\ callno = 0
    /\ calls = <<>>
    /\ wrote = <<>>
    /\ rx = <<>>
    /\ inflight = <<>>
    /\ elapsed = 0
    /\ result = NoResult
    /\ opresult = NoResult
    /\ glitch = FALSE
    /\ channel = <<>>
    /\ rx_dropped = FALSE
    /\ wresult = NoResult
    /\ ioerr = "none"
    /\ seq = 0
    /\ cpc = "call"
    /\ fn = "none"
    /\ arg = <<>>
    /\ ret = <<>>

\* both loops read the same n > 0 bytes, extend their accumulators and run
\* their framing loops to the stop; send_command's loop ends the pair when it
\* returns, and either loop when it panics
PairFeed(n) ==
    /\ fpc = "read"
    /\ peer.ctl # "panic"
    /\ n \in ReadSizes(scenario, Len(stream) - pos)
    /\ pos' = pos + n
    /\ \E t \in {FramingLoop("send_command", packet_buffer \o SubSeq(stream, pos + 1, pos + n))} :
           /\ packet_buffer' = t.buf
           /\ emitted' = t.out
           /\ fpc' = IF t.ctl = "return" THEN "returned"
                     ELSE IF t.ctl = "panic" THEN "panicked"
                     ELSE "read"
    /\ \E s \in {FramingLoop(peer.mode, peer.packet_buffer \o SubSeq(stream, pos + 1, pos + n))} :
           peer' = [peer EXCEPT !.packet_buffer = s.buf,
                                !.emitted = @ \o s.out,
                                !.ctl = s.ctl]
    /\ unit' = (unit /\ n = 1)
    /\ UNCHANGED <<mode, stream, scenario, states, iters, last, txnvars, streamvars, codecvars>>

PairNext == \E n \in 1..Len(stream) : PairFeed(n)

SpecPair == PairInit /\ [][PairNext]_vars

-----------------------------------------------------------------------------
(* Properties of the reassembler (SpecFeed) *)

\* the feed has ended: every byte was read and the loop stopped, or the call returned
FeedDone == fpc = "returned" \/ (fpc = "read" /\ pos = Len(stream))

\* C1: for a garbage byte g and a valid frame F, feeding g ++ [0xAA,0x55] ++ F
\* yields exactly one emitted payload, F's, with no further input needed.
C1_StrayMarkerThenFrame ==
    (scenario.kind = "stray" /\ FeedDone) => emitted = <<scenario.a.payload>>

\* C2: the payloads emitted for a byte stream do not depend on how the stream
\* is split into reads: they are those of a single read of the whole stream.
C2_ChunkingIndependent ==
    FeedDone => emitted = FramingLoop(mode, stream).out

\* C3: a valid frame fed one byte per read to an empty accumulator emits
\* nothing before the read that carries its last byte, and exactly its payload
\* once that read's framing loop has run.
C3_SingleByteFeeds ==
    (scenario.kind = "frame" /\ unit) =>
        /\ pos < Len(stream) => (emitted = <<>> /\ fpc # "returned")
        /\ FeedDone => emitted = <<scenario.a.payload>>

C3_Witness ==
    /\ scenario.kind = "frame"
    /\ unit
    /\ pos = Len(stream)
    /\ pos > 6
    /\ emitted = <<scenario.a.payload>>

\* what C4 says of the two iterations after the read of A' ++ B
RejectThenDecode ==
    /\ (iters = 1 /\ last.ctl # "none") =>
           /\ last.ctl = "continue"
           /\ last.out = 0
           /\ last.pre - last.post = 2
           /\ packet_buffer = Drain(stream, 2)
           /\ emitted = <<>>
    /\ (iters = 2 /\ last.ctl # "none") =>
           /\ last.out = 1
           /\ emitted = <<scenario.b.payload>>
    /\ FeedDone => emitted = <<scenario.b.payload>>

\* C4 as stated: with any bit of A's checksum flipped, the iteration rejects
\* A and discards exactly 2 bytes, and the next iteration emits B's payload,
\* whatever A's command and payload bytes are.
C4_AnyFrameBytes ==
    scenario.kind = "corrupt" => RejectThenDecode

\* the bytes of A after its marker hold no inbound marker: the first marker
\* after the 2 discarded bytes is B's
NoMarkerInsideA ==
    MarkerPosition(Drain(stream, 2)) = FrameLen(scenario.a) - 2

\* C4 (amended): the same, for every A whose bytes after its own marker
\* (command, length, payload, flipped checksum) contain no 0xAA 0x55.
C4_MarkerFreeFrame ==
    (scenario.kind = "corrupt" /\ NoMarkerInsideA) => RejectThenDecode

C4_Witness ==
    /\ scenario.kind = "corrupt"
    /\ NoMarkerInsideA
    /\ iters = 2
    /\ last.out = 1
    /\ emitted = <<scenario.b.payload>>

FrameValidIn(bytes, p) ==
    \E i \in 0..(Len(bytes) - 1) :
        LET r == decode_response(Drain(bytes, i))
        IN  r.kind = "Some" /\ r.payload = p

IsStateReport(p) == Len(p) >= 14 /\ p[1] = 96

\* payloads one byte short, with another tag, empty, and of full length
ProbePayloads ==
    {f.payload : f \in FeedFrames}
    \cup {SubSeq(StateReport.payload, 1, n) : n \in 0..14}
    \cup {<<103>> \o Tail(StateReport.payload), StateReport.payload \o <<0>>}

\* C8: a ControllerState is produced only from a payload taken from a frame
\* whose CRC16 check passed, of length at least 14 and with tag 0x60; every
\* shorter payload and every payload with another tag decodes to no value.
C8_StateOnlyFromValidReport ==
    /\ \A i \in 1..Len(emitted) : FrameValidIn(stream, emitted[i])
    /\ Len(states) = Cardinality({i \in 1..Len(emitted) : IsStateReport(emitted[i])})
    /\ \A j \in 1..Len(states) :
           \E i \in 1..Len(emitted) :
               /\ IsStateReport(emitted[i])
               /\ states[j] = StateFields(emitted[i])
    /\ \A p \in ProbePayloads :
           IF IsStateReport(p)
           THEN parse_controller_state(p) = [some |-> TRUE, state |-> StateFields(p)]
           ELSE parse_controller_state(p) = NoState

C8_Witness ==
    /\ mode = "run_serial_thread"
    /\ scenario.kind = "corrupt"
    /\ Len(states) = 1
    /\ states[1].battery = 87

\* the accumulator starts with the inbound marker and holds too few bytes to
\* read its length field, or fewer than the total length the field declares
IncompleteAtFront(buf) ==
    /\ Len(buf) >= 2
    /\ Slice(buf, 0, 2) = HEADERR
    /\ \/ Len(buf) < 4
       \/ BitAnd(At(buf, 3), 128) # 0 /\ Len(buf) < 5
       \/ Len(buf) < TotalLen(buf)

\* C19: on an accumulator that starts with the marker and holds less than the
\* frame it announces, the framing loop stops at once, discards no byte and
\* emits nothing.
C19_IncompleteFrameKept ==
    /\ IncompleteAtFront(packet_buffer) =>
           FramingLoop(mode, packet_buffer) = IterResult(packet_buffer, "break", <<>>)
    /\ (fpc = "framing" /\ IncompleteAtFront(packet_buffer)) =>
           LoopIter(mode, packet_buffer) = IterResult(packet_buffer, "break", <<>>)

C19_Witness ==
    /\ fpc = "read"
    /\ last.ctl = "break"
    /\ last.out = 0
    /\ last.pre = last.post
    /\ last.pre >= 6
    /\ IncompleteAtFront(packet_buffer)
    /\ emitted = <<>>
    /\ pos < Len(stream)

-----------------------------------------------------------------------------
(* Properties of the transactional client (SpecTxn) *)

\* C5: the payload a send_command call returns answers that call's own
\* request, never an earlier one (the device's answer names its request).
C5_NoStaleReply ==
    (result.kind = "Ok" /\ Len(result.value) > 1) => At(result.value, 1) = callno

TimedOut == result = Err("Timeout waiting for response")

\* the parts of C6 on the deadline: no read starts past it, and the timeout
\* error comes only past it and never over a decodable frame at the front
DeadlineKept ==
    /\ tpc = "recv" => elapsed < DeadlineTicks
    /\ TimedOut => elapsed >= DeadlineTicks
    /\ TimedOut => decode_response(packet_buffer).kind # "Some"

\* C6: every send_command call resolves with Ok(payload), the transport's
\* error or the timeout error; it does not read past the deadline and does
\* not time out over a complete checksum-valid frame at the accumulator front.
C6_CallResolves ==
    /\ tpc # "panicked"
    /\ result.kind \in {"none", "Ok", "Err"}
    /\ DeadlineKept

\* C9: an operation reports success only for a reply carrying its own tag
\* (0x67 get_versions, 0x62 get_pair_id, 0x66 start_calibration, 0x65
\* abort_calibration).
C9_OwnReplyTag ==
    (opresult.kind = "Ok" /\ op # "get_state" /\ Len(result.value) > 0) =>
        At(result.value, 0) = SubCommand(op)

\* the transport calls of one send_command call, in order
CycleOrder ==
    \A i \in 1..Len(calls) :
        calls[i] = (IF i = 1 THEN "clear_buffer"
                    ELSE IF i = 2 THEN "send_bytes" ELSE "receive_bytes")

\* C10: a send_command call makes one clear_buffer call, then one send_bytes
\* call carrying the encoded frame, then only receive_bytes calls; a frame is
\* written only by the call in progress, once, and a call starts only when
\* the one before it has resolved.
C10_OneSendAndWaitCycle ==
    /\ [](/\ CycleOrder
          /\ Len(wrote) <= 1
          /\ tpc \in {"recv", "sleep"} =>
                /\ Len(calls) >= 2
                /\ wrote = <<encode_command(88, SubCommand(op), <<>>)>>
          /\ tpc \in {"clear", "send"} => wrote = <<>>)
    /\ [][Len(wrote') > Len(wrote) => (tpc = "send" /\ calls' = <<"clear_buffer", "send_bytes">>)]_vars
    /\ [][callno' # callno => (tpc = "idle" /\ tpc' = "clear" /\ calls' = <<>>)]_vars

C10_Witness ==
    /\ callno = 2
    /\ Len(wrote) = 1
    /\ Len(calls) >= 4
    /\ tpc = "idle"
    /\ result.kind = "Ok"

-----------------------------------------------------------------------------
(* Properties of the streaming workers (SpecStream, SpecStreamFair) *)

\* the failures that do end the worker with the error: every failed read, and
\* a failed write in run_controller_loop
OtherErrorsPropagated ==
    (ioerr # "none" /\ ~(mode = "run_serial_thread" /\ ioerr = "write")) =>
        (fpc = "returned" /\ wresult = Err("transport"))

\* in send_command a failed clear_buffer, send_bytes or receive_bytes ends
\* the call with the error, and the call makes no transport call after it
FailedCallEnds ==
    /\ [](result = Err("transport") => tpc = "idle")
    /\ [][result = Err("transport") => (calls' = calls \/ callno' # callno)]_vars

\* C11: a failed transport operation (a write, a read other than a timeout)
\* ends the worker with that error, in run_serial_thread and in
\* run_controller_loop alike; the worker does not carry on to retry it.
C11_TransportErrorPropagated ==
    ioerr # "none" => (fpc = "returned" /\ wresult = Err("transport"))

\* C12: once the consumer has dropped its end of the channel, the worker
\* eventually detects it and returns Ok, whatever the device sends and
\* however often the write fails afterwards (a run that a failed read has
\* ended with its error is left aside).
C12_ClosedChannelDetected ==
    rx_dropped ~> (fpc = "returned" /\ (wresult = Ok(<<>>) \/ ioerr = "read"))

ChannelBounded == Len(channel) <= ChannelCapacity

\* C13: the queue never holds more than its capacity, and the worker never
\* stands at a send that can complete only after the consumer has pulled.
C13_WorkerNeverWaitsForConsumer ==
    /\ ChannelBounded
    /\ fpc = "blocking_send" => (rx_dropped \/ Len(channel) < ChannelCapacity)

\* the marker-aligned accumulator holds a checksum-valid frame at its front
ValidFrameAtFront ==
    /\ fpc \in {"framing", "blocking_send"}
    /\ Len(packet_buffer) >= 5
    /\ Slice(packet_buffer, 0, 2) = HEADERR
    /\ Len(packet_buffer) >= TotalLen(packet_buffer)
    /\ decode_response(Slice(packet_buffer, 0, TotalLen(packet_buffer))).kind = "Some"

\* the step ends an iteration of the while loop (a step into blocking_send is
\* the middle of one)
IterationEnds ==
    /\ fpc \in {"framing", "blocking_send"}
    /\ fpc' # fpc \/ packet_buffer' # packet_buffer
    /\ fpc' # "blocking_send"

\* exactly total_len bytes go from the front, the bytes behind them stay
FrameRemoved ==
    /\ packet_buffer' = Drain(packet_buffer, TotalLen(packet_buffer))
    /\ fpc' \in {"framing", "sleep"}

PayloadsOf(frames) == [i \in 1..Len(frames) |-> frames[i].payload]

RECURSIVE StatesOf(_)
StatesOf(frames) ==
    IF frames = <<>> THEN <<>>
    ELSE (IF IsStateReport(Head(frames).payload)
          THEN <<StateFields(Head(frames).payload)>> ELSE <<>>) \o StatesOf(Tail(frames))

\* at the end of a feed the frames of the read have been decoded in stream
\* order and the state reports among them handed over in that order
BurstHandedOver ==
    (fpc = "sleep" /\ scenario.frames # <<>>) =>
        /\ emitted = PayloadsOf(scenario.frames)
        /\ states = StatesOf(scenario.frames)
        /\ packet_buffer = <<>>

\* a state enters the channel at its tail, as it is handed over
SentInOrder ==
    Len(channel') > Len(channel) =>
        /\ Len(states') = Len(states) + 1
        /\ channel' = Append(channel, states'[Len(states')])

\* C20 as stated: in the streaming loops an iteration on a checksum-valid
\* frame removes exactly total_len bytes from the front and keeps the rest,
\* whether or not the payload is a state report; so k state reports read at
\* once reach the consumer as k states in stream order, and a frame with
\* another tag is consumed with nothing handed over.
C20_ValidFrameConsumed ==
    /\ [][(ValidFrameAtFront /\ IterationEnds) => FrameRemoved]_vars
    /\ [][SentInOrder]_vars
    /\ []BurstHandedOver

\* C20 (amended): the same while the consumer holds its end of the channel;
\* in run_serial_thread a state report decoded after the consumer has dropped
\* it ends the worker with Ok, and nothing is removed or handed over.
C20_ValidFrameConsumedWhileOpen ==
    /\ [][(ValidFrameAtFront /\ IterationEnds /\ ~(fpc = "blocking_send" /\ rx_dropped))
             => FrameRemoved]_vars
    /\ [][(ValidFrameAtFront /\ IterationEnds /\ fpc = "blocking_send" /\ rx_dropped)
             => (fpc' = "returned" /\ wresult' = Ok(<<>>) /\ UNCHANGED <<packet_buffer, channel, states>>)]_vars
    /\ [][SentInOrder]_vars
    /\ []BurstHandedOver

C20_Witness ==
    /\ mode = "run_serial_thread"
    /\ fpc = "sleep"
    /\ Len(scenario.frames) = 2
    /\ Len(states) = 2
    /\ states[1].left_x # states[2].left_x
    /\ Len(channel) >= 2
    /\ channel[Len(channel)] = states[2]

-----------------------------------------------------------------------------
(* Properties of the codec functions (SpecCodec) *)

\* C14: encode_command(cmd1, cmd2, payload), with the inbound marker put in
\* place of the outbound one, decodes to a payload equal to the original, for
\* payload lengths 0, 1, 127, 128 and 200 and every cmd1, cmd2.
C14_EncodeDecodeRoundTrip ==
    (fn = "encode_command" /\ cpc = "done") => ret = [kind |-> "Some", payload |-> arg.data]

\* what C15 says of a length n: it reads back as n, with header size 4 in the
\* one-byte form (n < 128) and 5 in the two-byte form
ReadsBack == ret = [len |-> arg.n, header_size |-> IF arg.n < 128 THEN 4 ELSE 5]

\* C15 as stated: for every length n encode_command can be given, the length
\* field it writes is read back by the decoder's length parsing as exactly n
\* with the matching header size.
C15_EveryLengthReadsBack ==
    (fn = "length_field" /\ cpc = "done") => ReadsBack

\* C15 (amended): the same for every length below 32768, the lengths 15 bits
\* hold; 127 takes the one-byte form, 128 and 200 the two-byte form, and 200
\* reads back as 200.
C15_LengthBelow32768ReadsBack ==
    /\ (fn = "length_field" /\ cpc = "done" /\ arg.n < 32768) => ReadsBack
    /\ (fn = "length_field" /\ cpc = "written") =>
           Len(ret) = (IF arg.n < 128 THEN 1 ELSE 2)

C15_Witness ==
    /\ fn = "length_field"
    /\ cpc = "done"
    /\ arg.n = 200
    /\ ret = [len |-> 200, header_size |-> 5]

\* C16: Crc16::compute(data, 0) over the table of Crc16::new equals the
\* bit-by-bit CRC-16/XMODEM of data, which is calculate_crc16(data); for the
\* ASCII bytes "123456789" it is 0x31C3.
C16_TableMatchesBitwise ==
    (fn = "Crc16_compute" /\ cpc = "done") =>
        /\ ret = calculate_crc16(arg.data)
        /\ arg.data = Ascii123456789 => ret = 12739

C16_Witness ==
    /\ fn = "Crc16_compute"
    /\ cpc = "done"
    /\ arg.data = Ascii123456789
    /\ ret = 12739

\* C17: the battery field of every ControllerState the decoder produces lies
\* within 0..100.
C17_BatteryWithin100 ==
    (fn = "parse_controller_state" /\ cpc = "done" /\ ret.some) => ret.state.battery \in 0..100

\* the buffer starts with the marker, holds its length field and at least
\* total_len bytes, and the CRC16 of buffer[0..total_len-2] is the big-endian
\* word at buffer[total_len-2..total_len]
Accepted(buffer) ==
    /\ Len(buffer) >= 4
    /\ Slice(buffer, 0, 2) = HEADERR
    /\ BitAnd(At(buffer, 3), 128) # 0 => Len(buffer) >= 5
    /\ Len(buffer) >= TotalLen(buffer)
    /\ calculate_crc16(Slice(buffer, 0, TotalLen(buffer) - 2))
           = read_u16(Slice(buffer, TotalLen(buffer) - 2, TotalLen(buffer)))

\* decode_response as C18 describes it
DecodeAsDescribed(buffer) ==
    IF Accepted(buffer)
    THEN [kind |-> "Some",
          payload |-> Slice(buffer, ParseLen(buffer).header_size, TotalLen(buffer) - 2)]
    ELSE NoPayload

\* C18: decode_response returns a payload exactly for a buffer that starts
\* with the marker, holds total_len bytes and passes the checksum comparison,
\* the payload being buffer[header_size..total_len-2]; otherwise it returns
\* no payload.
C18_DecodeAsDescribed ==
    (fn = "decode_response" /\ cpc = "done") => ret = DecodeAsDescribed(arg.buffer)

\* the same on every buffer whose declared length covers the 2 checksum bytes
DecodeAsDescribedWhenLenCoversCrc ==
    (fn = "decode_response" /\ cpc = "done" /\ ret.kind # "Panic") =>
        ret = DecodeAsDescribed(arg.buffer)

\* the value of the length field in the frame encode_command built (the field
\* stands after the 4 marker bytes and the 2 command bytes)
WrittenLength(frame) == ParseLen(Drain(frame, 3)).len

\* C21: the length field denotes the same quantity on both sides: the value
\* encode_command writes is the payload length plus the 2 checksum bytes, the
\* quantity decode_response adds to the header size to get the total length.
C21_LengthFieldCountsTrailer ==
    (fn = "encode_command" /\ cpc = "encoded") =>
        WrittenLength(ret) = Len(arg.data) + 2

\* what encode_command writes is the length of the data alone
EncoderWritesDataLength ==
    (fn = "encode_command" /\ cpc = "encoded") =>
        /\ WrittenLength(ret) = Len(arg.data)
        /\ Len(ret) = 6 + Len(LengthField(Len(arg.data))) + Len(arg.data) + 2

\* the length decode_response reads counts the payload and the 2 checksum bytes
DecoderLengthCountsTrailer ==
    (fn = "decode_response" /\ cpc = "done" /\ ret.kind = "Some") =>
        ParseLen(arg.buffer).len = Len(ret.payload) + 2

\* the ControllerState C22 describes for a payload: bit k of the big-endian
\* word payload[8] * 256 + payload[9], bits 0 and 1 of payload[10]
DescribedFields(p) ==
    LET word == p[9] * 256 + p[10]
        bit(k) == (word \div (2 ^ k)) % 2 = 1
    IN  [left_x |-> p[2], left_y |-> p[3], right_x |-> p[4], right_y |-> p[5],
         l_up |-> bit(5), l_down |-> bit(4), r_up |-> bit(7), r_down |-> bit(6),
         e_up |-> bit(3), e_down |-> bit(1), f_up |-> bit(2), f_down |-> bit(0),
         l3 |-> p[11] % 2 = 1, r3 |-> (p[11] \div 2) % 2 = 1,
         battery |-> p[12]]

\* the payload bytes C22 names: 1 to 4 and 8 to 11
NamedBytes == {1, 2, 3, 4, 8, 9, 10, 11}

\* an accepted payload: at least 14 bytes, the first of them the tag 0x60
AcceptedPayload(p) == Len(p) >= 14 /\ p[1] = 96

\* C22: for every accepted payload the axes are payload[1..5), the eight
\* button flags are bits 5, 4, 7, 6, 3, 1, 2, 0 of the big-endian word
\* payload[8..10), l3 and r3 are bits 0 and 1 of payload[10], battery is
\* payload[11]; two accepted payloads that agree on these bytes decode to the
\* same state.
C22_FieldsFromNamedBytes ==
    (fn = "parse_controller_state" /\ cpc = "done") =>
        /\ ret.some = AcceptedPayload(arg.payload)
        /\ ret.some =>
               /\ \A f \in DOMAIN DescribedFields(arg.payload) :
                      ret.state[f] = DescribedFields(arg.payload)[f]
               /\ \A q \in ParseInputs :
                      (/\ AcceptedPayload(q.payload)
                       /\ \A i \in NamedBytes : q.payload[i + 1] = arg.payload[i + 1])
                          => parse_controller_state(q.payload).state = ret.state

C22_Witness ==
    /\ fn = "parse_controller_state"
    /\ cpc = "done"
    /\ arg.payload = ReportWith(9, 32)
    /\ ret.some
    /\ ret.state.l_up
    /\ ~ret.state.l_down
    /\ ~ret.state.f_down

\* the button flags of a ControllerState
Buttons(s) ==
    <<s.l_up, s.l_down, s.r_up, s.r_down, s.e_up, s.e_down, s.f_up, s.f_down, s.l3, s.r3>>

\* accepted payloads that differ at payload[8] and nowhere else
DifferOnlyAt8(p, q) ==
    /\ AcceptedPayload(p)
    /\ AcceptedPayload(q)
    /\ Len(p) = Len(q)
    /\ p[9] # q[9]
    /\ \A i \in (1..Len(p)) \ {9} : p[i] = q[i]

\* the calibration flags are bits 4, 5, 6 of payload[8]
CalibrationFromByte8 ==
    /\ ret.state.cal_active = ((arg.payload[9] \div 16) % 2 = 1)
    /\ ret.state.cal_left = ((arg.payload[9] \div 32) % 2 = 1)
    /\ ret.state.cal_right = ((arg.payload[9] \div 64) % 2 = 1)

\* C23 as stated: the calibration flags are bits 4, 5, 6 of payload[8], the
\* byte that also supplies button flags: some button flag of the decoded
\* state changes when only payload[8] changes.
C23_ButtonChangesWithByte8 ==
    (/\ fn = "parse_controller_state"
     /\ cpc = "done"
     /\ ret.some
     /\ \E q \in ParseInputs : DifferOnlyAt8(arg.payload, q.payload)) =>
        /\ CalibrationFromByte8
        /\ \E q \in ParseInputs :
               /\ DifferOnlyAt8(arg.payload, q.payload)
               /\ Buttons(parse_controller_state(q.payload).state) # Buttons(ret.state)

\* C23 (amended): the calibration flags are bits 4, 5, 6 of payload[8], the
\* high-order byte of the button word, and no button flag reads that byte:
\* no button flag changes when only payload[8] changes.
C23_NoButtonFromByte8 ==
    (fn = "parse_controller_state" /\ cpc = "done" /\ ret.some) =>
        /\ CalibrationFromByte8
        /\ \A q \in ParseInputs :
               DifferOnlyAt8(arg.payload, q.payload) =>
                   Buttons(parse_controller_state(q.payload).state) = Buttons(ret.state)

C23_Witness ==
    /\ fn = "parse_controller_state"
    /\ cpc = "done"
    /\ arg.payload = ReportWith(8, 112)
    /\ ret.some
    /\ ret.state.cal_active
    /\ ret.state.cal_left
    /\ ret.state.cal_right
    /\ Buttons(ret.state) = Buttons(StateFields(StateReport.payload))

\* C25: decode_response never slices out of range: on every buffer whose
\* checksum comparison succeeds the declared length is at least 2, so the
\* payload slice packet[header_size..packet_len-2] has start <= end.
C25_PayloadSliceInRange ==
    (fn = "decode_response" /\ cpc = "done") =>
        /\ Accepted(arg.buffer) => ParseLen(arg.buffer).len >= 2
        /\ ret.kind \in {"Some", "None"}

\* the slice is out of range exactly on the accepted buffers that declare
\* less than the 2 checksum bytes
PanicOnlyBelowTwo ==
    (fn = "decode_response" /\ cpc = "done") =>
        (ret.kind = "Panic") = (Accepted(arg.buffer) /\ ParseLen(arg.buffer).len < 2)

\* C27: map_axis maps raw value 255 to 32767 and raw value 0 to -32768, and
\* is monotonically non-decreasing over the raw values 0..255: no value
\* below val maps above map_axis(val).
C27_AxisMappingMonotone ==
    (fn = "map_axis" /\ cpc = "done") =>
        /\ arg.val = 255 => ret = 32767
        /\ arg.val = 0 => ret = -32768
        /\ \A w \in 0..arg.val : map_axis(w) <= ret

\* below 255 the product fits 16 bits: the mapping is (val - 127) * 256,
\* increasing, from -32512 at 0 to 32512 at 254
AxisExactBelow255 ==
    (fn = "map_axis" /\ cpc = "done" /\ arg.val < 255) =>
        /\ ret = (arg.val - 127) * 256
        /\ \A w \in 0..arg.val : map_axis(w) <= ret

\* at 255 the product 32768 does not fit and wraps to the lowest value
AxisWrapsAt255 ==
    (fn = "map_axis" /\ cpc = "done" /\ arg.val = 255) => ret = -32768

\* the loop's minimum length: its while condition
MinLen(m) == IF m = "send_command" THEN 2 ELSE 6

\* a feed is over: a read was extended into the accumulator and the framing
\* loop has stopped at its while condition or at a break
LoopStopped == fpc = "read" /\ pos > 0

-----------------------------------------------------------------------------
(* Properties of the two loops fed the same reads (SpecPair) *)

\* C26: for every sequence of reads from empty accumulators, send_command's
\* loop returns a payload at the same read as the streaming loop decodes its
\* first valid payload, and the payload is the same: while send_command's
\* loop has not returned the streaming loop has decoded nothing, and when it
\* returns the streaming loop's first payload is the one returned.
C26_SameFirstEmission ==
    /\ fpc = "read" => peer.emitted = <<>>
    /\ fpc = "returned" => (peer.emitted # <<>> /\ peer.emitted[1] = emitted[1])

\* the two loops agree, on the payload and on a panic, on every stream in
\* which no loop clears its accumulator: a frame, or a frame with a flipped
\* checksum bit followed by a frame, split into reads in every way
SameFirstEmissionWithoutClear ==
    (scenario.kind \in {"frame", "corrupt"}) =>
        /\ C26_SameFirstEmission
        /\ (fpc = "panicked") = (peer.ctl = "panic")

====
